---- MODULE Spec2Model ----
(***************************************************************************)
(* Model of the evaluation harness of MetOncoFit:                          *)
(*   src/metoncofit/validator.py  computeConfusionMatrix, Summarize,       *)
(*                                PearsonCorrelation, leave_one_cell_out   *)
(*   src/src/classifiers/trees.py randomForestClassification               *)
(*                                                                         *)
(* Reading conventions.  The control flow and data flow of the repository  *)
(* code are translated statement by statement.  Library calls are modelled *)
(* by their documented behaviour; the fitted ensemble is opaque (any       *)
(* predictor, any out-of-bag estimate).  Floating-point values are kept    *)
(* exact: a quotient a/b is the record Quot(a, b), NaN is its own value.   *)
(***************************************************************************)
EXTENDS Integers, Sequences, FiniteSets, TLC

\* ------------------------------------------------------------------ bounds
MaxIterations == 2      \* largest value of the `iterations` argument
TestSize == 2           \* rows of the test partition of one split
TrainSize == 2          \* rows of the training partition of one split
RngStates == 3          \* distinct states of the process-wide generator
PSpread == 2            \* decades of p-values taken on either side of the floor
NRows == 4              \* most rows of the frame given to leave_one_cell_out
DimSpread == 1          \* feature counts taken from FeatBack up to FeatBack + this
NCols == 2              \* most feature columns of a frame given to PearsonCorrelation

\* ------------------------------------------------------- program constants
NumLabels == 3          \* labels = ["UPREG", "NEUTRAL", "DOWNREG"]
SeedValue == 0          \* np.random.seed(0)
FloorExp == 50          \* 1E-50, the p-value floor
FeatBack == 10          \* feat = (data.shape[1]-10)
FeatStep == 20          \* feat = feat + 20
TreesStart == 5         \* trees = 5
TreesStep == 1500       \* trees = trees + 1500
TreesMax == 500         \* while(trees <= 500)

Labels == 1..NumLabels

VARIABLES
    fn,                 \* the entry point that was called
    pc,                 \* "loop", "done", or "error" (an exception left the call)
    iterations,         \* argument `iterations`
    count,              \* local `count` of the trial loop
    matrix,             \* local `matrix` (<<>> while unbound)
    normalizedMatrix,   \* local `normalizedMatrix` (<<>> while unbound)
    Summary,            \* per-trial rows of the Summary frame
    summaryOut,         \* the reduced Summary that Summarize returns
    rng,                \* state of the process-wide numpy generator
    trials,             \* history: executions of the loop body so far
    splitStates,        \* history: generator states that the splits of the
                        \* trials after the first were drawn from
    lastOob,            \* history: oob_score_ of the ensemble last fitted
    ttestP,             \* history: the p-value ttest_1samp returned
    trialLog,           \* history: per-trial matrix and true-label counts
                        \* (kept under SpecOrder only)
    df2,                \* leave_one_cell_out: the frame, rows [cell, cls]
    nfeat,              \* leave_one_cell_out: number of feature columns
    groups,             \* df2["Cell Line"].unique()
    gidx,               \* position of the `for cell in groups` loop
    new_df,             \* local `new_df` as filtered at line 307 (row indexes)
    output,             \* local `output`
    raised,             \* history: which call raised, "" if none
    last,               \* history: held-out cell and partitions of the last group
    ncols,              \* PearsonCorrelation: feature columns of each frame
    dfi,                \* position of the `for df in diffExpDFs` loop
    coli,               \* position of the `for col in df.columns` loop
    pcount,             \* local `count`
    median,             \* local `median`: the per-class medians of the column
    corr,               \* local `corr`
    pearsonCorrelationDict

aggVars == <<iterations, count, matrix, normalizedMatrix, Summary,
             summaryOut, rng, trials, splitStates, lastOob, ttestP,
             trialLog>>
ablVars == <<df2, nfeat, groups, gidx, new_df, output, raised, last>>
prsVars == <<ncols, dfi, coli, pcount, median, corr, pearsonCorrelationDict>>

\* ----------------------------------------------------------- arithmetic
RECURSIVE SumSeq(_)
SumSeq(s) == IF s = <<>> THEN 0 ELSE Head(s) + SumSeq(Tail(s))

NaN == [kind |-> "nan"]
Inf == [kind |-> "inf"]
Quot(a, b) == [kind |-> "num", num |-> a, den |-> b]

\* float division under np.seterr(divide='ignore', invalid='ignore')
FloatDiv(a, b) ==
    IF b = 0 THEN (IF a = 0 THEN NaN ELSE Inf) ELSE Quot(a, b)

\* ------------------------------------------------------ confusion matrix
\* sklearn.metrics.confusion_matrix(y_true, y_pred) with labels=None: the
\* labels are those that appear in y_true or y_pred, in sorted order.
PresentLabels(Ytest, Ypred) ==
    {Ytest[i] : i \in DOMAIN Ytest} \cup {Ypred[i] : i \in DOMAIN Ypred}

RECURSIVE SortedSeq(_)
SortedSeq(S) ==
    IF S = {} THEN <<>>
    ELSE LET m == CHOOSE x \in S : \A y \in S : x <= y
         IN  <<m>> \o SortedSeq(S \ {m})

confusion_matrix(Ytest, Ypred) ==
    LET labs == SortedSeq(PresentLabels(Ytest, Ypred))
        d == Len(labs)
    IN  [i \in 1..d |-> [j \in 1..d |->
            Cardinality({k \in DOMAIN Ytest :
                            Ytest[k] = labs[i] /\ Ypred[k] = labs[j]})]]

RowSum(m, i) == SumSeq(m[i])
Total(m) == SumSeq([i \in 1..Len(m) |-> RowSum(m, i)])

\* np.add(a, b): element-wise on equal shapes, a 1x1 operand is broadcast,
\* any other pair of shapes raises ValueError.
Broadcastable(a, b) == Len(a) = Len(b) \/ Len(a) = 1 \/ Len(b) = 1

np_add(a, b) ==
    LET d == IF Len(a) >= Len(b) THEN Len(a) ELSE Len(b)
        at(m, i, j) == IF Len(m) = 1 THEN m[1][1] ELSE m[i][j]
    IN  [i \in 1..d |-> [j \in 1..d |-> at(a, i, j) + at(b, i, j)]]

\* variant: the division taken along the other axis (column sums)
NormalizeByColumn(m) ==
    [i \in 1..Len(m) |-> [j \in 1..Len(m) |->
        FloatDiv(m[i][j], SumSeq([k \in 1..Len(m) |-> m[k][j]]))]]
\* matrix.astype('float') / matrix.sum(axis=1)[:, np.newaxis]
Normalize(m) ==
    [i \in 1..Len(m) |-> [j \in 1..Len(m) |-> FloatDiv(m[i][j], RowSum(m, i))]]

\* ------------------------------------------------------------- generator
\* np.random.seed(s) puts the process-wide generator in the state of seed s;
\* every draw advances it.
Seeded(s) == s % RngStates
NextRng(g) == (g + 1) % RngStates

\* DataPreparation.processDataFromFile: the split and the oversampling draw
\* from the process-wide generator (no random_state of their own).
processDataFromFile(g) == NextRng(g)

DrawnFrom(seen, k, g) == IF k >= 1 THEN seen \cup {g} ELSE seen

\* ---------------------------------------------------------------- trainer
Correct(Ytest, Ypred) == Cardinality({k \in DOMAIN Ytest : Ytest[k] = Ypred[k]})

\* what RandomForestClassifier(oob_score=True).fit leaves in RFC.oob_score_:
\* the share of the training rows that the out-of-bag vote gets right
oob_score_(oob) == Quot(oob, TrainSize)

\* RFC.score(Xtest, Ytest)
score(Ytest, Ypred) == Quot(Correct(Ytest, Ypred), TestSize)

\* randomForestClassification(Xtrain, Ytrain, Xtest, Ytest), entered with the
\* process-wide generator in state g.  The fitted forest is opaque: Ypred is
\* what it predicts on Xtest.  random_state=True gives the forest a generator
\* of its own, so the process-wide generator is left where np.random.seed(0)
\* put it.  Of the four values returned, the forest itself and CVAccuracy (a
\* second opaque score) are read by no caller and are not carried.
randomForestClassification(g, Ytest, Ypred) ==
    [rng             |-> Seeded(SeedValue),
     RFC_prediction  |-> Ypred,
     HoldOutAccuracy |-> score(Ytest, Ypred)]

TestVectors == [1..TestSize -> Labels]

\* ------------------------------------------------- computeConfusionMatrix
\* the loop guard `count <= iterations`
LoopGuard(c, n) == c <= n

\* body of the loop, lines 42-45: what `matrix` is bound to afterwards
Accumulate(m, c, cm) ==
    IF c = 0 THEN cm
    ELSE IF c > 1 THEN np_add(m, cm)
    ELSE m

\* np.add raises on shapes it cannot broadcast
AccumulateRaises(m, c, cm) == c > 1 /\ ~Broadcastable(m, cm)

\* test rows of each true label
TrueCounts(Ytest) ==
    [l \in Labels |-> Cardinality({k \in DOMAIN Ytest : Ytest[k] = l})]

TrialCM(keep) ==
    /\ fn = "computeConfusionMatrix"
    /\ pc = "loop"
    /\ LoopGuard(count, iterations)
    /\ \E Ytest \in TestVectors, Ypred \in TestVectors :
         LET g == processDataFromFile(rng)
             r == randomForestClassification(g, Ytest, Ypred)
             cm == confusion_matrix(Ytest, r.RFC_prediction)
         IN  /\ splitStates' = DrawnFrom(splitStates, trials, rng)
             /\ rng' = r.rng
             /\ trials' = trials + 1
             /\ trialLog' = IF keep
                   THEN Append(trialLog, [cm |-> cm, true |-> TrueCounts(Ytest)])
                   ELSE trialLog
             /\ IF AccumulateRaises(matrix, count, cm)
                THEN /\ pc' = "error"
                     /\ UNCHANGED <<matrix, count>>
                ELSE /\ matrix' = Accumulate(matrix, count, cm)
                     /\ count' = count + 1
                     /\ pc' = "loop"
    /\ UNCHANGED <<fn, iterations, normalizedMatrix, Summary, summaryOut,
                   lastOob, ttestP, ablVars, prsVars>>

FinishCM ==
    /\ fn = "computeConfusionMatrix"
    /\ pc = "loop"
    /\ ~LoopGuard(count, iterations)
    /\ normalizedMatrix' = Normalize(matrix)
    /\ pc' = "done"
    /\ UNCHANGED <<fn, iterations, count, matrix, Summary, summaryOut, rng,
                   trials, splitStates, lastOob, ttestP, trialLog, ablVars, prsVars>>

\* -------------------------------------------------------------- Summarize
PVal(e) == [kind |-> "p", exp |-> e]            \* the value 10^(-e)
PLess(p, q) == p.kind = "p" /\ q.kind = "p" /\ p.exp > q.exp
PFloor == PVal(FloorExp)

\* scipy.stats.ttest_1samp is a library routine: its p-value is any float
TTestPValues ==
    {PVal(e) : e \in (FloorExp - PSpread)..(FloorExp + PSpread)}
        \cup {PVal(0), NaN}

\* variant: the comparison of line 119 turned around
ClampAbove(p) == IF PLess(PFloor, p) THEN PFloor ELSE p
\* lines 119-120
ClampPValue(p) == IF PLess(p, PFloor) THEN PFloor ELSE p

\* Summary['Accuracy'].mean(); the frame is modelled by the column that the
\* reduction reads
MeanAccuracy(rows) ==
    IF rows = <<>> THEN NaN
    ELSE Quot(SumSeq([i \in 1..Len(rows) |-> rows[i].Accuracy.num]),
              Len(rows) * TestSize)

TrialSummarize ==
    /\ fn = "Summarize"
    /\ pc = "loop"
    /\ LoopGuard(count, iterations)
    /\ \E Ytest \in TestVectors, Ypred \in TestVectors, oob \in 0..TrainSize :
         LET g == processDataFromFile(rng)
             r == randomForestClassification(g, Ytest, Ypred)
             OOBAccuracy == r.HoldOutAccuracy
         IN  /\ splitStates' = DrawnFrom(splitStates, trials, rng)
             /\ rng' = r.rng
             /\ trials' = trials + 1
             /\ lastOob' = oob_score_(oob)
             /\ Summary' = Append(Summary, [Accuracy |-> OOBAccuracy])
             /\ count' = count + 1
    /\ UNCHANGED <<fn, pc, iterations, matrix, normalizedMatrix, summaryOut,
                   ttestP, trialLog, ablVars, prsVars>>

FinishSummarize ==
    /\ fn = "Summarize"
    /\ pc = "loop"
    /\ ~LoopGuard(count, iterations)
    /\ \E p \in TTestPValues :
         /\ ttestP' = p
         /\ summaryOut' = [Mean   |-> MeanAccuracy(Summary),
                           PValue |-> ClampPValue(p)]
    /\ pc' = "done"
    /\ UNCHANGED <<fn, iterations, count, matrix, normalizedMatrix, Summary,
                   rng, trials, splitStates, lastOob, trialLog, ablVars, prsVars>>

IdleAgg ==
    /\ iterations = 0
    /\ count = 0
    /\ matrix = <<>>
    /\ normalizedMatrix = <<>>
    /\ Summary = <<>>
    /\ summaryOut = <<>>
    /\ rng = 0
    /\ trials = 0
    /\ splitStates = {}
    /\ lastOob = NaN
    /\ ttestP = NaN
    /\ trialLog = <<>>

\* ----------------------------------------------------- PearsonCorrelation
\* gradient = [1.0, 0.0, -1.0]
gradient == <<1, 0, -1>>

\* the per-class medians a column may have
MedianValues == {0, 1}
Medians == [1..NumLabels -> MedianValues]

\* deviations from the mean, times the length (kept integral)
Deviations(x) == [i \in 1..Len(x) |-> Len(x) * x[i] - SumSeq(x)]
Dot(x, y) == SumSeq([i \in 1..Len(x) |-> x[i] * y[i]])

\* the coefficient num / sqrt(densq), kept exact
Corr(num, densq) == [kind |-> "corr", num |-> num, densq |-> densq]

\* scipy.stats.pearsonr(x, y): the covariance over the product of the
\* standard deviations; 0/0, hence NaN, when an input is constant
pearsonr(x, y) ==
    LET dx == Deviations(x)
        dy == Deviations(y)
    IN  IF Dot(dx, dx) * Dot(dy, dy) = 0 THEN NaN
        ELSE Corr(Dot(dx, dy), Dot(dx, dx) * Dot(dy, dy))

np_isnan(v) == v.kind = "nan"

\* variant: the correlation stored as it comes
KeepNaN(correlation) == correlation
\* lines 159-162: what is stored for the column
Reported(correlation) ==
    IF np_isnan(correlation) # TRUE THEN correlation ELSE Quot(0, 1)

\* lines 154-162, one column
CorrelateColumn ==
    /\ fn = "PearsonCorrelation"
    /\ pc = "loop"
    /\ coli <= ncols
    /\ \E m \in Medians :
         LET correlation == pearsonr(m, gradient)
         IN  /\ median' = m
             /\ corr' = Append(corr, Reported(correlation))
    /\ coli' = coli + 1
    /\ UNCHANGED <<fn, pc, ncols, dfi, pcount, pearsonCorrelationDict,
                   aggVars, ablVars>>

\* lines 164-165 for the frame just finished, then lines 148-153 for the
\* next one: count is set back to 0 at the top of every pass
StoreFrame ==
    /\ fn = "PearsonCorrelation"
    /\ pc = "loop"
    /\ coli > ncols
    /\ dfi <= NumLabels
    /\ pearsonCorrelationDict' =
          [k \in DOMAIN pearsonCorrelationDict \cup {pcount} |->
              IF k = pcount THEN corr ELSE pearsonCorrelationDict[k]]
    /\ dfi' = dfi + 1
    /\ IF dfi < NumLabels
       THEN /\ pcount' = 0
            /\ corr' = <<>>
            /\ coli' = 1
       ELSE /\ pcount' = pcount + 1
            /\ UNCHANGED <<corr, coli>>
    /\ UNCHANGED <<fn, pc, ncols, median, aggVars, ablVars>>

\* line 167
ReturnPearson ==
    /\ fn = "PearsonCorrelation"
    /\ pc = "loop"
    /\ dfi > NumLabels
    /\ pc' = "done"
    /\ UNCHANGED <<fn, prsVars, aggVars, ablVars>>

IdlePrs ==
    /\ ncols = 0
    /\ dfi = 0
    /\ coli = 0
    /\ pcount = 0
    /\ median = <<>>
    /\ corr = <<>>
    /\ pearsonCorrelationDict = <<>>

\* ----------------------------------------------------- leave_one_cell_out
\* Cell-line names are sequences of characters.  Besides letters they may
\* hold "(" and ")", as the NCI-60 name HL-60(TB) does.
CellNames == { <<"a">>, <<"a", "b">>, <<"a", "(", "b", ")">>, <<"c">> }

IsSubstring(t, s) ==
    \E i \in 0..(Len(s) - Len(t)) : SubSeq(s, i + 1, i + Len(t)) = t

\* Series.str.contains(pat) searches for pat as a regular expression
\* (regex=True is the default).  In a pattern of letters and balanced
\* parentheses the parentheses only group: it matches the letters in a row.
PatternLetters(pat) == SelectSeq(pat, LAMBDA c : c \notin {"(", ")"})
str_contains(s, pat) == IsSubstring(PatternLetters(pat), s)

\* Series.unique(): the distinct values in order of first appearance
RECURSIVE unique(_)
unique(col) ==
    IF col = <<>> THEN <<>>
    ELSE LET front == unique(SubSeq(col, 1, Len(col) - 1))
             x == col[Len(col)]
         IN  IF \E i \in 1..Len(front) : front[i] = x THEN front
             ELSE Append(front, x)

\* new_df = df2[~df2["Cell Line"].str.contains(str(cell))], as row indexes
Remaining(frame, cell) ==
    {i \in 1..Len(frame) : ~str_contains(frame[i].cell, cell)}

\* train_test_split(..., test_size=0.3): ceil(0.3 n) rows are held out and
\* the rest train; it raises ValueError when either side would be empty
\* (a release that hands back the empty side instead fails one call later,
\* in fit_sample: the pass is left by an exception either way).
TestCount(n) == (3 * n + 9) \div 10
SplitRaises(n) == n = 0 \/ n - TestCount(n) = 0

ClassesOf(frame, rows) == {frame[i].cls : i \in rows}
ClassCount(frame, rows, c) == Cardinality({i \in rows : frame[i].cls = c})

\* RandomOverSampler().fit_sample raises ValueError on a single class
OversampleRaises(frame, train) == Cardinality(ClassesOf(frame, train)) <= 1

\* RandomOverSampler: every class is brought up to the size of the largest
\* one by drawing its own rows again; the result as copies per training row
Oversamplings(frame, train) ==
    LET big == CHOOSE m \in 0..Cardinality(train) :
                 /\ \E c \in ClassesOf(frame, train) : ClassCount(frame, train, c) = m
                 /\ \A c \in ClassesOf(frame, train) : ClassCount(frame, train, c) <= m
    IN  {bag \in [train -> 1..big] :
            \A c \in ClassesOf(frame, train) :
                SumSeq([k \in 1..Len(frame) |->
                    IF k \in train /\ frame[k].cls = c THEN bag[k] ELSE 0]) = big}

\* the inner loop, lines 323-328: the tree counts fitted for one feature count
RECURSIVE TreeLoop(_, _)
TreeLoop(trees, fits) ==
    IF trees <= TreesMax THEN TreeLoop(trees + TreesStep, Append(fits, trees))
    ELSE fits

\* the outer loop, lines 321-332: one entry per pass, with its feature count
\* and the tree counts fitted in it
RECURSIVE FeatLoop(_, _, _)
FeatLoop(feat, dim, passes) ==
    IF feat < dim - 1
    THEN FeatLoop(feat + FeatStep, dim,
                  Append(passes, [feat |-> feat, fits |-> TreeLoop(TreesStart, <<>>)]))
    ELSE passes

Sweep(dim) == FeatLoop(dim - FeatBack, dim, <<>>)

\* RandomForestClassifier.fit raises ValueError unless 0 < max_features <= n_features
FitRaises(dim) ==
    \E k \in 1..Len(Sweep(dim)) :
        /\ Sweep(dim)[k].fits # <<>>
        /\ ~(0 < Sweep(dim)[k].feat /\ Sweep(dim)[k].feat <= dim)

NoGroup == [cell |-> <<>>, train |-> {}, data |-> <<>>, eval |-> {}]

\* one pass of `for cell in groups`, lines 306-332
HoldOutCell ==
    /\ fn = "leave_one_cell_out"
    /\ pc = "loop"
    /\ gidx <= Len(groups)
    /\ new_df' = Remaining(df2, groups[gidx])
    /\ LET cell == groups[gidx]
           n == Cardinality(new_df')
       IN  IF SplitRaises(n)
           THEN /\ pc' = "error"
                /\ raised' = "train_test_split"
                /\ UNCHANGED <<gidx, output, last>>
           ELSE \E orig_data \in {e \in SUBSET new_df' : Cardinality(e) = TestCount(n)} :
                  LET new_data == new_df' \ orig_data
                  IN  IF OversampleRaises(df2, new_data)
                      THEN /\ pc' = "error"
                           /\ raised' = "fit_sample"
                           /\ UNCHANGED <<gidx, output, last>>
                      ELSE \E data \in Oversamplings(df2, new_data) :
                             /\ last' = [cell |-> cell, train |-> new_data,
                                         data |-> data, eval |-> orig_data]
                             /\ IF FitRaises(nfeat)
                                THEN /\ pc' = "error"
                                     /\ raised' = "fit"
                                     /\ UNCHANGED <<gidx, output>>
                                ELSE \E acc \in [1..Len(Sweep(nfeat)) ->
                                                    0..Cardinality(orig_data)] :
                                       /\ output' = output \o
                                            [k \in 1..Len(Sweep(nfeat)) |->
                                               [cell |-> cell,
                                                mean_acc |-> Quot(acc[k],
                                                    Cardinality(orig_data))]]
                                       /\ gidx' = gidx + 1
                                       /\ UNCHANGED <<pc, raised>>
    /\ UNCHANGED <<fn, df2, nfeat, groups, aggVars, prsVars>>

\* lines 335-337
FinishAblation ==
    /\ fn = "leave_one_cell_out"
    /\ pc = "loop"
    /\ gidx > Len(groups)
    /\ pc' = "done"
    /\ UNCHANGED <<fn, ablVars, aggVars, prsVars>>

Frames ==
    UNION {[1..n -> [cell : CellNames, cls : Labels]] : n \in 1..NRows}

IdleAbl ==
    /\ df2 = <<>>
    /\ nfeat = 0
    /\ groups = <<>>
    /\ gidx = 0
    /\ new_df = {}
    /\ output = <<>>
    /\ raised = ""
    /\ last = NoGroup

InitAblation ==
    /\ fn = "leave_one_cell_out"
    /\ pc = "loop"
    /\ IdleAgg
    /\ IdlePrs
    /\ df2 \in Frames
    /\ nfeat \in FeatBack..(FeatBack + DimSpread)
    /\ groups = unique([i \in 1..Len(df2) |-> df2[i].cell])
    /\ gidx = 1
    /\ new_df = {}
    /\ output = <<>>
    /\ raised = ""
    /\ last = NoGroup

InitPearson ==
    /\ fn = "PearsonCorrelation"
    /\ pc = "loop"
    /\ IdleAgg
    /\ IdleAbl
    /\ ncols \in 1..NCols
    /\ dfi = 1
    /\ coli = 1
    /\ pcount = 0
    /\ median = <<>>
    /\ corr = <<>>
    /\ pearsonCorrelationDict = <<>>

\* ------------------------------------------------------- TrialAggregator
InitAgg(fns) ==
    /\ fn \in fns
    /\ pc = "loop"
    /\ IdleAbl
    /\ IdlePrs
    /\ iterations \in 0..MaxIterations
    /\ count = 0
    /\ matrix = <<>>
    /\ normalizedMatrix = <<>>
    /\ Summary = <<>>
    /\ summaryOut = <<>>
    /\ rng \in 0..(RngStates - 1)
    /\ trials = 0
    /\ splitStates = {}
    /\ lastOob = NaN
    /\ ttestP = NaN
    /\ trialLog = <<>>

vars == <<fn, pc, aggVars, ablVars, prsVars>>

Init == InitAgg({"computeConfusionMatrix", "Summarize"})

Next ==
    \/ TrialCM(FALSE)
    \/ FinishCM
    \/ TrialSummarize
    \/ FinishSummarize

Spec == Init /\ [][Next]_vars

\* the same run of computeConfusionMatrix with the per-trial matrices logged
InitOrder == InitAgg({"computeConfusionMatrix"})

NextOrder ==
    \/ TrialCM(TRUE)
    \/ FinishCM

SpecOrder == InitOrder /\ [][NextOrder]_vars

NextAblation ==
    \/ HoldOutCell
    \/ FinishAblation

SpecAblation == InitAblation /\ [][NextAblation]_vars

NextPearson ==
    \/ CorrelateColumn
    \/ StoreFrame
    \/ ReturnPearson

SpecPearson == InitPearson /\ [][NextPearson]_vars

\* ================================================================ claims
\* value equality of two quotients
QuotEq(a, b) ==
    a.kind = "num" /\ b.kind = "num" /\ a.num * b.den = b.num * a.den

\* exact sum of a sequence of quotients, as <<numerator, denominator>>
RECURSIVE QuotSum(_)
QuotSum(row) ==
    IF row = <<>> THEN <<0, 1>>
    ELSE LET r == QuotSum(Tail(row))
         IN  <<Head(row).num * r[2] + r[1] * Head(row).den, Head(row).den * r[2]>>

\* C1: a run with iterations = N has executed exactly N trials when the
\* loop is left and the reduction step has run.
C1_ExactlyNTrials == pc = "done" => trials = iterations

\* every trial so far gave a full NumLabels x NumLabels matrix (each label
\* occurred among its true or predicted labels)
AllTrialsFullShape ==
    \A i \in 1..Len(trialLog) : Len(trialLog[i].cm) = NumLabels

\* C2: on every trial boundary of computeConfusionMatrix the accumulated
\* matrix holds every trial run so far: its total is (trials so far) times
\* the test-set size, and the row of each true label sums to the number of
\* test rows with that label over all those trials.
C2_RowSumsCoverAllTrials ==
    (fn = "computeConfusionMatrix" /\ pc \in {"loop", "done"}
        /\ trialLog # <<>> /\ AllTrialsFullShape) =>
        /\ Total(matrix) = Len(trialLog) * TestSize
        /\ \A l \in Labels :
              RowSum(matrix, l) =
                 SumSeq([i \in 1..Len(trialLog) |-> trialLog[i].true[l]])

\* the trial loop of computeConfusionMatrix run over a given sequence of
\* per-trial matrices: the matrix it ends with, or "error" when np.add raises
RECURSIVE RunLoop(_, _, _)
RunLoop(cms, c, m) ==
    IF c >= Len(cms) THEN m
    ELSE IF AccumulateRaises(m, c, cms[c + 1]) THEN <<"error">>
    ELSE RunLoop(cms, c + 1, Accumulate(m, c, cms[c + 1]))

\* C3: the matrix a finished run returns is the one the loop ends with
\* under every permutation of the order in which the same per-trial
\* matrices are processed.
C3_OrderIndependent ==
    (fn = "computeConfusionMatrix" /\ pc = "done" /\ AllTrialsFullShape) =>
        \A p \in Permutations(1..Len(trialLog)) :
            RunLoop([i \in 1..Len(trialLog) |-> trialLog[p[i]].cm], 0, <<>>)
               = matrix

\* C6: the value Summarize records per trial as 'Accuracy' (OOBAccuracy) is
\* the out-of-bag estimate of the forest fitted in that trial.
C6_AccuracyIsOutOfBag ==
    (fn = "Summarize" /\ Summary # <<>>) =>
        QuotEq(Summary[Len(Summary)].Accuracy, lastOob)

\* C7: the splits of the trials after the first are not all drawn from one
\* and the same generator state.
C7_SplitRandomnessVaries ==
    trials >= 3 => Cardinality(splitStates) > 1

\* C8: the p-value in the returned summary is 1E-50 whenever the t-test gave
\* less than 1E-50, and the t-test's own p-value when that is 1E-50 or more.
C8_PValueFloor ==
    (fn = "Summarize" /\ pc = "done") =>
        /\ PLess(ttestP, PFloor) => summaryOut.PValue = PFloor
        /\ (ttestP.kind = "p" /\ ~PLess(ttestP, PFloor)) =>
              summaryOut.PValue = ttestP

C8_Witness ==
    /\ fn = "Summarize" /\ pc = "done"
    /\ PLess(ttestP, PFloor)
    /\ summaryOut.PValue = PFloor
    /\ Len(Summary) >= 2

\* C9: in the normalized matrix every cell is the raw cell over its row sum;
\* a row with nonzero sum sums to 1, a row with zero sum is NaN throughout.
C9_RowStochastic ==
    (fn = "computeConfusionMatrix" /\ pc = "done") =>
        /\ Len(normalizedMatrix) = Len(matrix)
        /\ \A i \in 1..Len(matrix) :
             IF RowSum(matrix, i) = 0
             THEN \A j \in 1..Len(matrix) : normalizedMatrix[i][j] = NaN
             ELSE /\ \A j \in 1..Len(matrix) :
                        QuotEq(normalizedMatrix[i][j],
                               Quot(matrix[i][j], RowSum(matrix, i)))
                  /\ LET t == QuotSum(normalizedMatrix[i]) IN t[1] = t[2]

C9_Witness ==
    /\ fn = "computeConfusionMatrix" /\ pc = "done"
    /\ trials >= 3
    /\ Len(matrix) = NumLabels
    /\ \E i \in 1..Len(matrix) :
          RowSum(matrix, i) = 0 /\ normalizedMatrix[i][1] = NaN
    /\ \E i \in 1..Len(matrix) :
          /\ RowSum(matrix, i) > 1
          /\ \E j, k \in 1..Len(matrix) : j # k /\ matrix[i][j] > 0 /\ matrix[i][k] > 0

\* C4: for a group's result, neither the training partition (before or
\* after oversampling) nor the evaluation partition holds a row whose Cell
\* Line is the held-out one.
C4_HeldOutGroupExcluded ==
    (fn = "leave_one_cell_out" /\ last # NoGroup /\ raised = ""
        /\ output # <<>> /\ output[Len(output)].cell = last.cell) =>
        \A i \in last.train \cup DOMAIN last.data \cup last.eval :
            df2[i].cell # last.cell

\* C5: a group that cannot be evaluated (too few rows left to split, too few
\* classes left) never ends the run: no exception of the split or of the
\* oversampler leaves leave_one_cell_out.
C5_UnevaluableGroupSkipped ==
    ~(fn = "leave_one_cell_out" /\ pc = "error"
        /\ raised \in {"train_test_split", "fit_sample"})

\* C10: the value stored for a column is exactly 0.0 when the correlation
\* of its medians with the gradient is undefined, the correlation itself
\* otherwise; no stored or returned value is NaN.
Undefined(m) == \A i, j \in DOMAIN m : m[i] = m[j]

C11_OneFitOneRowPerGroup ==
    (fn = "leave_one_cell_out" /\ last # NoGroup) =>
        /\ Len(Sweep(nfeat)) = 1
        /\ Sweep(nfeat)[1].fits = <<TreesStart>>
        /\ Cardinality({k \in 1..Len(output) : output[k].cell = last.cell}) = 1

\* C12: holding out a cell line removes no row of another cell line: every
\* row whose Cell Line differs from the held-out one is among the rows that
\* remain for the split (that no row of the held-out one remains is C4).
C12_OtherCellLinesKept ==
    (fn = "leave_one_cell_out" /\ (pc = "error" \/ gidx > 1)) =>
        LET cell == IF pc = "error" THEN groups[gidx] ELSE groups[gidx - 1]
        IN  \A i \in 1..Len(df2) : df2[i].cell # cell => i \in new_df

====
